---- MODULE Spec2Model ----
(***************************************************************************)
(* Model of sam_jax/models/load_model.py: the model selector get_model and *)
(* the two initialization protocols create_image_model (flax.nn, legacy)   *)
(* and create_vit_image_model (flax.linen, modern).                        *)
(*                                                                         *)
(* A single caller calls get_model again and again.  One call is walked    *)
(* through in program order: the if/elif dispatch on the name, the default *)
(* of the seed, the initialization protocol, its print, the return.        *)
(*                                                                         *)
(* The framework (jax, flax) and the architecture modules are black boxes: *)
(* a sampled parameter tree is the symbolic term of what it was sampled    *)
(* from (module, key, input shape), a PRNG key is its array of words.      *)
(***************************************************************************)
EXTENDS Integers, Sequences, FiniteSets, TLC

(* Seeds and array words range over 0..MaxSeed. *)
MaxSeed == 1

(***************************************************************************)
(* Values                                                                  *)
(***************************************************************************)

(* A local that has not been assigned yet. *)
Unbound == [unbound |-> TRUE]

(* Python's None, the default of the parameter prng_key. *)
None == [present |-> FALSE, words |-> << >>]

(* A jnp.ndarray of unsigned words. *)
Array(ws) == [present |-> TRUE, words |-> ws]

(* random.PRNGKey(seed): the two-word key (seed's high word, low word);    *)
(* for the small seeds used here the high word is 0.                       *)
PRNGKey(seed) == Array(<<0, seed>>)

(* The eight names of the list _AVAILABLE_MODEL_NAMES. *)
AVAILABLE_MODEL_NAMES ==
  { "WideResnet28x10",
    "WideResnet28x6_ShakeShake",
    "Pyramid_ShakeDrop",
    "VisionTransformer",
    "VisionTransformer_mini",
    "WideResnet_mini",
    "WideResnet_ShakeShake_mini",
    "Pyramid_ShakeDrop_mini" }

(* Names a caller may pass that are not in the list. *)
OtherNames == { "ResNet50" }

ModelNames == AVAILABLE_MODEL_NAMES \cup OtherNames

(* The shape arguments a caller passes: two points that differ in each of  *)
(* batch_size, image_size, num_classes and num_channels.                   *)
ShapeArgs ==
  { [batch_size |-> 2, image_size |-> 32,  num_classes |-> 10,  num_channels |-> 3],
    [batch_size |-> 4, image_size |-> 224, num_classes |-> 100, num_channels |-> 1] }

(* The values a caller passes as prng_key: nothing (None), a one-element   *)
(* array, or a key made by random.PRNGKey.                                 *)
SeedArgs ==
  {None} \cup { Array(<<w>>) : w \in 0..MaxSeed }
         \cup { PRNGKey(s) : s \in 0..MaxSeed }

(***************************************************************************)
(* get_model: the dispatch on the name (lines 118-158)                     *)
(***************************************************************************)

(* raise ValueError('Unrecognized model name.') *)
UnrecognizedName ==
  [raise |-> "ValueError", message |-> "Unrecognized model name."]

(* The exception of bool() on an array of more than one element. *)
AmbiguousTruth ==
  [raise |-> "ValueError",
   message |-> "The truth value of an array with more than one element is ambiguous."]

IsRaise(v) == "raise" \in DOMAIN v

(* wide_resnet.WideResnet.partial(...) *)
WideResnet(blocks_per_group, channel_multiplier, num_outputs) ==
  [cls |-> "wide_resnet.WideResnet", api |-> "flax.nn",
   blocks_per_group |-> blocks_per_group,
   channel_multiplier |-> channel_multiplier,
   num_outputs |-> num_outputs]

(* wide_resnet_shakeshake.WideResnetShakeShake.partial(...) *)
WideResnetShakeShake(blocks_per_group, channel_multiplier, num_outputs) ==
  [cls |-> "wide_resnet_shakeshake.WideResnetShakeShake", api |-> "flax.nn",
   blocks_per_group |-> blocks_per_group,
   channel_multiplier |-> channel_multiplier,
   num_outputs |-> num_outputs]

(* pyramidnet.PyramidNetShakeDrop.partial(num_outputs=...) *)
PyramidNetShakeDrop(num_outputs) ==
  [cls |-> "pyramidnet.PyramidNetShakeDrop", api |-> "flax.nn",
   num_outputs |-> num_outputs]

(* pyramidnet.PyramidNetShakeDrop.partial(num_outputs=..., pyramid_depth=...) *)
PyramidNetShakeDropDepth(num_outputs, pyramid_depth) ==
  [cls |-> "pyramidnet.PyramidNetShakeDrop", api |-> "flax.nn",
   num_outputs |-> num_outputs, pyramid_depth |-> pyramid_depth]

(* vision_transformer.VisionTransformer(num_classes, hidden_size=768,      *)
(* transformer={num_layers, mlp_dim: 3072, num_heads: 12},                 *)
(* patches={size: (16, 16)})                                               *)
VisionTransformer(num_layers, num_classes) ==
  [cls |-> "vision_transformer.VisionTransformer", api |-> "flax.linen",
   num_classes |-> num_classes,
   hidden_size |-> 768,
   transformer |-> [num_layers |-> num_layers, mlp_dim |-> 3072, num_heads |-> 12],
   patches |-> [size |-> <<16, 16>>]]

(* A dispatch whose final else falls back to a module instead of raising. *)
ModuleForNoElse(model_name, num_classes) ==
  IF model_name = "WideResnet28x10" THEN WideResnet(4, 10, num_classes)
  ELSE IF model_name = "WideResnet28x6_ShakeShake"
    THEN WideResnetShakeShake(4, 6, num_classes)
  ELSE IF model_name = "Pyramid_ShakeDrop" THEN PyramidNetShakeDrop(num_classes)
  ELSE IF model_name = "VisionTransformer" THEN VisionTransformer(12, num_classes)
  ELSE IF model_name = "VisionTransformer_mini" THEN VisionTransformer(2, num_classes)
  ELSE IF model_name = "WideResnet_mini" THEN WideResnet(2, 1, num_classes)
  ELSE IF model_name = "WideResnet_ShakeShake_mini"
    THEN WideResnetShakeShake(2, 1, num_classes)
  ELSE PyramidNetShakeDropDepth(num_classes, 11)

(* A dispatch whose mini wide-resnet branch was pasted from the full one   *)
(* and kept its hyperparameters.                                           *)
ModuleForPasted(model_name, num_classes) ==
  IF model_name = "WideResnet28x10" THEN WideResnet(4, 10, num_classes)
  ELSE IF model_name = "WideResnet28x6_ShakeShake"
    THEN WideResnetShakeShake(4, 6, num_classes)
  ELSE IF model_name = "Pyramid_ShakeDrop" THEN PyramidNetShakeDrop(num_classes)
  ELSE IF model_name = "VisionTransformer" THEN VisionTransformer(12, num_classes)
  ELSE IF model_name = "VisionTransformer_mini" THEN VisionTransformer(2, num_classes)
  ELSE IF model_name = "WideResnet_mini" THEN WideResnet(4, 10, num_classes)
  ELSE IF model_name = "WideResnet_ShakeShake_mini"
    THEN WideResnetShakeShake(2, 1, num_classes)
  ELSE IF model_name = "Pyramid_ShakeDrop_mini"
    THEN PyramidNetShakeDropDepth(num_classes, 11)
  ELSE UnrecognizedName

(* The if/elif chain of get_model: the module of the name, or the raise of *)
(* the final else.                                                         *)
ModuleFor(model_name, num_classes) ==
  IF model_name = "WideResnet28x10" THEN WideResnet(4, 10, num_classes)
  ELSE IF model_name = "WideResnet28x6_ShakeShake"
    THEN WideResnetShakeShake(4, 6, num_classes)
  ELSE IF model_name = "Pyramid_ShakeDrop" THEN PyramidNetShakeDrop(num_classes)
  ELSE IF model_name = "VisionTransformer" THEN VisionTransformer(12, num_classes)
  ELSE IF model_name = "VisionTransformer_mini" THEN VisionTransformer(2, num_classes)
  ELSE IF model_name = "WideResnet_mini" THEN WideResnet(2, 1, num_classes)
  ELSE IF model_name = "WideResnet_ShakeShake_mini"
    THEN WideResnetShakeShake(2, 1, num_classes)
  ELSE IF model_name = "Pyramid_ShakeDrop_mini"
    THEN PyramidNetShakeDropDepth(num_classes, 11)
  ELSE UnrecognizedName

(***************************************************************************)
(* get_model: the default of the seed (lines 159-160)                      *)
(***************************************************************************)

(* A test for None instead of a truth test. *)
TruthIsNotNone(v) == IF v.present THEN "true" ELSE "false"

(* bool(v), as `not prng_key` evaluates it: None is false, an array of one *)
(* element is the truth of the element, an array of more than one element  *)
(* raises ValueError.                                                       *)
Truth(v) ==
  IF ~v.present THEN "false"
  ELSE IF Len(v.words) > 1 THEN "ValueError"
  ELSE IF \E i \in 1..Len(v.words) : v.words[i] # 0 THEN "true"
  ELSE "false"

(* random.PRNGKey(0), the key get_model takes when `not prng_key`. *)
DefaultKey == PRNGKey(0)

(***************************************************************************)
(* get_model: the choice of the protocol (line 162)                        *)
(***************************************************************************)

(* A membership test that forgot the mini transformer. *)
UsesVitFullOnly(model_name) == model_name = "VisionTransformer"

(* model_name in ['VisionTransformer', 'VisionTransformer_mini'] *)
UsesVit(model_name) ==
  model_name \in {"VisionTransformer", "VisionTransformer_mini"}

(***************************************************************************)
(* State                                                                   *)
(***************************************************************************)

VARIABLES
  pc,          \* where the caller is: "idle" before the first call, a line
               \* of get_model during a call, "returned" or "raised" after it
  args,        \* the arguments of the call in progress (or just finished)
  module,      \* get_model's local module
  prng_key,    \* get_model's local prng_key (the parameter, then line 160)
  model,       \* the protocol's local model
  init_state,  \* the protocol's local init_state
  stdout,      \* the lines printed since the call began
  error,       \* the exception the call raised
  trace,       \* the protocol invocations of the call: protocol, key handed
  result,      \* the pair the call returned
  entropy,     \* the environment's random source (clock, OS entropy), what
               \* a fresh random draw would read; it moves on between calls
  remembered   \* at most one earlier finished call: its arguments and outcome

vars == <<pc, args, module, prng_key, model, init_state, stdout, error, trace,
          result, entropy, remembered>>

(***************************************************************************)
(* create_image_model (lines 44-67)                                        *)
(***************************************************************************)

(* input_shape = (batch_size, image_size, image_size, num_channels) *)
InputShape(batch_size, image_size, num_channels) ==
  <<batch_size, image_size, image_size, num_channels>>

(* jax.random.PRNGKey(0), the key of the flax.nn.stochastic scope. *)
StochasticKey == PRNGKey(0)

(* module.init_by_shape(prng_key, [(input_shape, jnp.float32)]): the       *)
(* initial parameters, sampled with the key given, inside the stochastic   *)
(* scope.                                                                  *)
InitByShape(m, key, input_shape) ==
  [sampled_with |-> key, module |-> m, input_shape |-> input_shape,
   dtype |-> "jnp.float32", stochastic |-> StochasticKey]

(* flax.nn.Model(module, initial_params): the module bound to parameters. *)
Model(m, initial_params) ==
  [cls |-> "flax.nn.Model", module |-> m, params |-> initial_params]

(* The collection of the flax.nn.stateful() scope after the init ran in    *)
(* it: the state (e.g. batch statistics) of the module at the input shape. *)
StatefulCollection(m, input_shape) ==
  [cls |-> "flax.nn.Collection", state_of |-> m, input_shape |-> input_shape]

(* type(v) *)
TypeOf(v) == v.cls

(* A create_image_model that prints nothing. *)
LegacyPrintNothing(state) == << >>

(* print(f'type(init_state): {type(init_state)}') of create_image_model. *)
LegacyPrint(state) == << <<"type(init_state): ", TypeOf(state)>> >>

(***************************************************************************)
(* create_vit_image_model (lines 70-90)                                    *)
(***************************************************************************)

(* x = jnp.ones(input_shape) *)
Ones(input_shape) == [shape |-> input_shape, fill |-> 1]

(* A key drawn afresh from the environment. *)
VitInitKeyFresh(key) == PRNGKey(entropy)

(* The key create_vit_image_model gives to model.init: jax.random.PRNGKey(0), *)
(* whatever its parameter prng_key is.                                      *)
VitInitKey(key) == PRNGKey(0)

(* model.init(key, x, train=False): the variables of the module, its       *)
(* parameters sampled with the key.                                        *)
ModelInit(m, key, x) ==
  [cls |-> "flax.core.FrozenDict",
   params |-> [sampled_with |-> key, module |-> m, input_shape |-> x.shape],
   train |-> FALSE]

(* print(f'type(init_state): {type(init_state)}') of create_vit_image_model. *)
VitPrint(state) == << <<"type(init_state): ", TypeOf(state)>> >>

(***************************************************************************)
(* The caller and the steps of one call                                    *)
(***************************************************************************)

Init ==
  /\ pc = "idle"
  /\ args = Unbound
  /\ module = Unbound
  /\ prng_key = Unbound
  /\ model = Unbound
  /\ init_state = Unbound
  /\ stdout = << >>
  /\ error = Unbound
  /\ trace = << >>
  /\ result = Unbound
  /\ entropy = 0
  /\ remembered = {}

(* The finished call, as the caller saw it. *)
Outcome == [args |-> args, status |-> pc, result |-> result, error |-> error]

(* The caller calls get_model(model_name, batch_size, image_size,          *)
(* num_classes, num_channels, prng_key).  The call before it, if any, is   *)
(* over; the caller may keep its outcome to compare later.                 *)
Call(model_name, shape, key) ==
  /\ pc \in {"idle", "returned", "raised"}
  /\ args' = [model_name |-> model_name,
              batch_size |-> shape.batch_size,
              image_size |-> shape.image_size,
              num_classes |-> shape.num_classes,
              num_channels |-> shape.num_channels,
              prng_key |-> key]
  /\ prng_key' = key
  /\ module' = Unbound
  /\ model' = Unbound
  /\ init_state' = Unbound
  /\ stdout' = << >>
  /\ error' = Unbound
  /\ trace' = << >>
  /\ result' = Unbound
  /\ entropy' = (entropy + 1) % (MaxSeed + 1)
  /\ remembered' \in
       IF pc = "idle" THEN {remembered} ELSE {remembered, {Outcome}}
  /\ pc' = "dispatch"

(* Lines 118-158: the if/elif chain builds the module or raises. *)
Dispatch ==
  /\ pc = "dispatch"
  /\ LET m == ModuleFor(args.model_name, args.num_classes) IN
       IF IsRaise(m)
         THEN /\ error' = m
              /\ pc' = "raised"
              /\ UNCHANGED module
         ELSE /\ module' = m
              /\ pc' = "seed"
              /\ UNCHANGED error
  /\ UNCHANGED <<args, prng_key, model, init_state, stdout, trace, result,
                 entropy, remembered>>

(* Lines 159-160: if not prng_key: prng_key = random.PRNGKey(0). *)
DefaultSeed ==
  /\ pc = "seed"
  /\ LET t == Truth(prng_key) IN
       IF t = "ValueError"
         THEN /\ error' = AmbiguousTruth
              /\ pc' = "raised"
              /\ UNCHANGED prng_key
         ELSE /\ prng_key' = IF t = "false" THEN DefaultKey ELSE prng_key
              /\ pc' = "select"
              /\ UNCHANGED error
  /\ UNCHANGED <<args, module, model, init_state, stdout, trace, result,
                 entropy, remembered>>

(* Lines 166-167 and 60-65: the else branch of line 162 calls              *)
(* create_image_model, which initializes the module by shape.              *)
CreateImageModel ==
  /\ pc = "select"
  /\ ~UsesVit(args.model_name)
  /\ LET input_shape == InputShape(args.batch_size, args.image_size,
                                   args.num_channels)
         initial_params == InitByShape(module, prng_key, input_shape)
     IN /\ model' = Model(module, initial_params)
        /\ init_state' = StatefulCollection(module, input_shape)
  /\ trace' = Append(trace, [protocol |-> "create_image_model",
                             prng_key |-> prng_key])
  /\ pc' = "legacy_print"
  /\ UNCHANGED <<args, module, prng_key, stdout, error, result, entropy,
                 remembered>>

(* Line 66: create_image_model prints the type of init_state. *)
CreateImageModelPrint ==
  /\ pc = "legacy_print"
  /\ stdout' = stdout \o LegacyPrint(init_state)
  /\ pc' = "return"
  /\ UNCHANGED <<args, module, prng_key, model, init_state, error, trace,
                 result, entropy, remembered>>

(* Lines 163-164 and 86-88: the then branch of line 162 calls              *)
(* create_vit_image_model, which initializes the module on a tensor of     *)
(* ones; its local model is the module it was given.                       *)
CreateVitImageModel ==
  /\ pc = "select"
  /\ UsesVit(args.model_name)
  /\ LET input_shape == InputShape(args.batch_size, args.image_size,
                                   args.num_channels)
         x == Ones(input_shape)
     IN /\ model' = module
        /\ init_state' = ModelInit(module, VitInitKey(prng_key), x)
  /\ trace' = Append(trace, [protocol |-> "create_vit_image_model",
                             prng_key |-> prng_key])
  /\ pc' = "vit_print"
  /\ UNCHANGED <<args, module, prng_key, stdout, error, result, entropy,
                 remembered>>

(* Line 89: create_vit_image_model prints the type of init_state. *)
CreateVitImageModelPrint ==
  /\ pc = "vit_print"
  /\ stdout' = stdout \o VitPrint(init_state)
  /\ pc' = "return"
  /\ UNCHANGED <<args, module, prng_key, model, init_state, error, trace,
                 result, entropy, remembered>>

(* Lines 67 / 90 and 168: return model, init_state. *)
Return ==
  /\ pc = "return"
  /\ result' = [model |-> model, init_state |-> init_state]
  /\ pc' = "returned"
  /\ UNCHANGED <<args, module, prng_key, model, init_state, stdout, error,
                 trace, entropy, remembered>>

Next ==
  \/ \E model_name \in ModelNames, shape \in ShapeArgs, key \in SeedArgs :
        Call(model_name, shape, key)
  \/ Dispatch
  \/ DefaultSeed
  \/ CreateImageModel
  \/ CreateImageModelPrint
  \/ CreateVitImageModel
  \/ CreateVitImageModelPrint
  \/ Return

Spec == Init /\ [][Next]_vars

(***************************************************************************)
(* Vocabulary of the properties                                            *)
(***************************************************************************)

(* The call is over. *)
Finished == pc \in {"returned", "raised"}

(* An initialization protocol has run in the call. *)
AfterInit == pc \in {"legacy_print", "vit_print", "return", "returned"}

(* The two names of the transformer family. *)
TransformerNames == {"VisionTransformer", "VisionTransformer_mini"}

(* A seed that was supplied and is truthy / a seed that is absent or falsy. *)
SuppliedTruthy(v) == v.present /\ Len(v.words) = 1 /\ v.words[1] # 0
AbsentOrFalsy(v) == ~v.present \/ (Len(v.words) = 1 /\ v.words[1] = 0)

(* The key the initial weights of the call were sampled with. *)
WeightsKey ==
  IF trace[1].protocol = "create_image_model"
    THEN model.params.sampled_with
    ELSE init_state.params.sampled_with

(* The input shape the weights of the call were initialized at. *)
WeightsShape ==
  IF trace[1].protocol = "create_image_model"
    THEN model.params.input_shape
    ELSE init_state.params.input_shape

(* The module inside a returned pair. *)
ModuleOfPair(pair) ==
  IF pair.model.cls = "flax.nn.Model" THEN pair.model.module ELSE pair.model

(* A module's hyperparameters other than its output size. *)
Hyper(m) == [f \in DOMAIN m \ {"num_outputs", "num_classes"} |-> m[f]]

(* A module's output size. *)
OutputSize(m) ==
  IF "num_outputs" \in DOMAIN m THEN m.num_outputs ELSE m.num_classes

(* The arguments of a call without its seed. *)
NameAndShapes(a) == [a EXCEPT !.prng_key = None]

(***************************************************************************)
(* Properties                                                              *)
(***************************************************************************)

(* C1: every finished call of get_model with a name of                     *)
(* _AVAILABLE_MODEL_NAMES, with or without an explicit seed, has returned  *)
(* a non-null (model, state) pair and has not raised.                      *)
C1_SupportedNameReturnsPair ==
  (Finished /\ args.model_name \in AVAILABLE_MODEL_NAMES) =>
    /\ pc = "returned"
    /\ result # Unbound
    /\ result.model # Unbound
    /\ result.init_state # Unbound

(* C2: a call with a name outside the supported set gets no further than   *)
(* the dispatch: it raises the unrecognized-name ValueError, whatever the  *)
(* other arguments, no initialization protocol is invoked, and no model,   *)
(* state or pair is produced.                                              *)
C2_UnknownNameRaises ==
  (pc # "idle" /\ args.model_name \notin AVAILABLE_MODEL_NAMES) =>
    /\ pc \in {"dispatch", "raised"}
    /\ pc = "raised" => error = UnrecognizedName
    /\ trace = << >>
    /\ model = Unbound
    /\ init_state = Unbound
    /\ result = Unbound

C2_Witness ==
  /\ pc = "raised"
  /\ args.model_name \notin AVAILABLE_MODEL_NAMES
  /\ args.prng_key = PRNGKey(1)
  /\ error = UnrecognizedName

C4_UnseededIsExplicitKeyZero ==
  /\ (AfterInit /\ args.prng_key = None) => trace[1].prng_key = PRNGKey(0)
  /\ (Finished /\ args.prng_key \in {None, PRNGKey(0)}) =>
       \A r \in remembered :
         ( /\ NameAndShapes(r.args) = NameAndShapes(args)
           /\ r.args.prng_key \in {None, PRNGKey(0)} ) =>
           /\ r.status = pc
           /\ r.result = result

(* C5: once a protocol has run, the initial weights were sampled with the  *)
(* key given to get_model, or with the default key PRNGKey(0) when none    *)
(* was given, in the legacy and in the transformer path alike.  (A seed    *)
(* that was supplied but is falsy is the case of C10 and left out here.)   *)
C5_GivenKeySamplesWeights ==
  (AfterInit /\ (args.prng_key = None \/ SuppliedTruthy(args.prng_key))) =>
    WeightsKey = (IF args.prng_key = None THEN PRNGKey(0) ELSE args.prng_key)

(* C6: the first element of a returned pair is a model, the module bound   *)
(* to its initial parameters, and the second element is the state, which   *)
(* does not hold the parameters.                                           *)
C6_PairIsBoundModelAndState ==
  pc = "returned" =>
    /\ result.model.cls = "flax.nn.Model"
    /\ result.model.module = module
    /\ "params" \in DOMAIN result.model
    /\ "params" \notin DOMAIN result.init_state

(* C7: a call runs no protocol before line 162 and exactly one afterwards, *)
(* once: create_vit_image_model exactly for the two transformer names,     *)
(* create_image_model for the other names; the type of the state follows   *)
(* the family.                                                             *)
C7_OneProtocolOnce ==
  /\ AfterInit =>
       /\ Len(trace) = 1
       /\ trace[1].protocol =
            (IF args.model_name \in TransformerNames
               THEN "create_vit_image_model" ELSE "create_image_model")
       /\ TypeOf(init_state) =
            (IF args.model_name \in TransformerNames
               THEN "flax.core.FrozenDict" ELSE "flax.nn.Collection")
  /\ ~AfterInit => trace = << >>

C7_Witness ==
  /\ pc = "returned"
  /\ args.model_name = "VisionTransformer_mini"
  /\ trace[1].protocol = "create_vit_image_model"
  /\ \E r \in remembered :
       /\ r.status = "returned"
       /\ r.args.model_name = "Pyramid_ShakeDrop_mini"
       /\ TypeOf(r.result.init_state) = "flax.nn.Collection"

(* C8: the hyperparameters of the module follow from the name alone (the   *)
(* values of the four names the claim lists, and the same values as in any *)
(* earlier call with that name); num_classes sets the output size and      *)
(* batch_size, image_size, num_channels the input shape.                   *)
C8_HyperparametersFollowName ==
  module # Unbound =>
    /\ args.model_name = "WideResnet_mini" =>
         module.blocks_per_group = 2 /\ module.channel_multiplier = 1
    /\ args.model_name = "WideResnet28x10" =>
         module.blocks_per_group = 4 /\ module.channel_multiplier = 10
    /\ args.model_name = "VisionTransformer" =>
         module.transformer.num_layers = 12
    /\ args.model_name = "VisionTransformer_mini" =>
         module.transformer.num_layers = 2
    /\ OutputSize(module) = args.num_classes
    /\ \A r \in remembered :
         (r.status = "returned" /\ r.args.model_name = args.model_name) =>
           Hyper(ModuleOfPair(r.result)) = Hyper(module)
    /\ AfterInit =>
         WeightsShape = <<args.batch_size, args.image_size, args.image_size,
                          args.num_channels>>

C8_Witness ==
  /\ pc = "returned"
  /\ args.model_name = "WideResnet_mini"
  /\ args.batch_size = 2 /\ args.image_size = 32 /\ args.num_classes = 10
  /\ module.blocks_per_group = 2
  /\ \E r \in remembered :
       /\ r.status = "returned"
       /\ r.args.model_name = args.model_name
       /\ r.args.num_classes # args.num_classes
       /\ r.args.prng_key # args.prng_key

(* C9: nothing is printed before the protocol has initialized the state;   *)
(* then one line with the type of the state is printed, before the pair is *)
(* returned; a returned call has printed exactly that line, and a call     *)
(* that raised the unrecognized-name error has printed nothing.            *)
C9_OneLogLine ==
  /\ pc \in {"dispatch", "seed", "select", "legacy_print", "vit_print"} =>
       stdout = << >>
  /\ pc \in {"legacy_print", "vit_print"} =>
       init_state # Unbound /\ result = Unbound
  /\ pc = "return" =>
       /\ stdout = << <<"type(init_state): ", init_state.cls>> >>
       /\ result = Unbound
  /\ pc = "returned" =>
       stdout = << <<"type(init_state): ", result.init_state.cls>> >>
  /\ (pc = "raised" /\ error = UnrecognizedName) => stdout = << >>

C9_Witness ==
  /\ pc = "returned"
  /\ args.model_name = "WideResnet_ShakeShake_mini"
  /\ stdout = << <<"type(init_state): ", "flax.nn.Collection">> >>
  /\ \E r \in remembered : r.status = "raised" /\ r.error = UnrecognizedName

(* C10: the seed is tested only after the name was recognized (an unknown  *)
(* name raises the unrecognized-name error whatever the seed); the key     *)
(* handed to the protocol is the supplied seed when it is truthy, and      *)
(* PRNGKey(0) when the seed is absent or supplied but falsy.               *)
C10_SeedDefaultsByTruth ==
  /\ pc \in {"seed", "select"} => args.model_name \in AVAILABLE_MODEL_NAMES
  /\ (pc = "raised" /\ args.model_name \notin AVAILABLE_MODEL_NAMES) =>
       error = UnrecognizedName
  /\ AfterInit =>
       /\ args.model_name \in AVAILABLE_MODEL_NAMES
       /\ SuppliedTruthy(args.prng_key) => trace[1].prng_key = args.prng_key
       /\ AbsentOrFalsy(args.prng_key) => trace[1].prng_key = PRNGKey(0)

C10_Witness ==
  /\ pc = "returned"
  /\ args.prng_key = Array(<<0>>)
  /\ trace[1].prng_key = PRNGKey(0)
  /\ \E r \in remembered :
       /\ r.status = "returned"
       /\ r.args.prng_key = Array(<<1>>)
       /\ NameAndShapes(r.args) = NameAndShapes(args)
       /\ r.result # result
====
